---- MODULE Spec2Model ----
(***************************************************************************)
(* Model of actix-web-queryst (src/src/lib.rs): the QuerySt<T> extractor,  *)
(* its configuration QueryStConfig and its error type QueryStPayloadError. *)
(*                                                                         *)
(* The query parser (queryst::parse) and the typed decoder                 *)
(* (serde_json::from_value) are external crates.  They are modelled as     *)
(* two fixed but arbitrary functions, chosen in Init and never changed, so *)
(* that every property is checked for every behaviour the two crates can   *)
(* have on the sample inputs.                                              *)
(*                                                                         *)
(* Requests are served by concurrent workers: the statements of            *)
(* from_request are separate steps of each request, interleaved freely.    *)
(***************************************************************************)
EXTENDS Naturals, Sequences, FiniteSets

(* ---------------------------- bounds ----------------------------------- *)
NumRequests == 2

Requests == 1..NumRequests
\* the requests whose wrapper is followed into the application's handler
NumHandled == 1
WRequests == 1..NumHandled

\* sample inputs: raw query strings, generic parsed values, field values
QueryStrings == {"q1", "q2"}
JsonValues == {"v1", "v2"}
Strs == {"test", "test1"}
Fields == {"id", "name"}
Unwritten == "<unwritten>"

(* ------------------------ Option and Result ---------------------------- *)
None == [none |-> TRUE]
Some(x) == [some |-> x]
IsSome(o) == "some" \in DOMAIN o

Ok(x) == [ok |-> x]
Err(e) == [err |-> e]
IsOk(x) == "ok" \in DOMAIN x
IsErr(x) == "err" \in DOMAIN x

(* --------------------------- the target type --------------------------- *)
\* T: the caller's type, a struct of String fields (tests::Id, tests::User)
TValues == [Fields -> Strs]
\* the values the decoder may produce
Decoded == {[f \in Fields |-> "test"], [f \in Fields |-> IF f = "id" THEN "test1" ELSE "test"]}

ParseResults == {Ok(v) : v \in JsonValues} \cup {Err("ParseError")}
DecodeResults == {Ok(t) : t \in Decoded} \cup {Err("serde_json::Error")}

(* ------------------------------ QuerySt -------------------------------- *)
\* pub struct QuerySt<T>(pub T)
QuerySt(t) == <<t>>

into_inner(self) == self[1]

deref(self) == self[1]

\* variant of deref_mut_assign: the assignment goes to a copy of the inner value
deref_mut_copy(self, f, v) == self

\* *self.deref_mut().f = v
deref_mut_assign(self, f, v) == <<[self[1] EXCEPT ![f] = v]>>

(* ------------------------- QueryStPayloadError ------------------------- *)
DeserializeValue(e) == [variant |-> "DeserializeValue", cause |-> e]
DeserializeType(e) == [variant |-> "DeserializeType", cause |-> e]

BAD_REQUEST == 400
UNPROCESSABLE_ENTITY == 422
CONFLICT == 409

\* variant of status_code: only the parse failure is a Bad Request
status_code_by_variant(e) == IF e.variant = "DeserializeValue" THEN BAD_REQUEST ELSE UNPROCESSABLE_ENTITY

\* impl ResponseError for QueryStPayloadError
status_code(e) == BAD_REQUEST

\* e.into(): actix_web::Error from a ResponseError
into(e) == [kind |-> "ResponseError", cause |-> e, status |-> status_code(e)]

\* InternalError::from_response(e, resp).into()
InternalError_from_response(e, status) == [kind |-> "InternalError", cause |-> e, status |-> status]

\* query.unwrap_err().as_response_error().error_response().status()
error_response_status(err) == err.status

(* ----------------------------- QueryStConfig --------------------------- *)
\* the error handlers an application installs
Handlers == {"unprocessable", "conflict"}

\* (error_handler)(e, req)
call_handler(h, e, rq) ==
    IF h = "unprocessable"
    THEN InternalError_from_response(e, UNPROCESSABLE_ENTITY)
    ELSE InternalError_from_response(e, CONFLICT)

QueryStConfig_default == [ehandler |-> None]

error_handler(self, f) == [self EXCEPT !.ehandler = Some(f)]

(* ------------------------------- state --------------------------------- *)
VARIABLES
    phase,        \* "build": the App is being configured; "serving"
    app_data,     \* Option<QueryStConfig> registered on the route
    parser,       \* queryst::parse, as a function of the query string
    decoder,      \* serde_json::from_value::<T>, as a function of the value
    pc,           \* each request's position
    req,          \* each request: the API called, its query string, its path
    ehandler,     \* from_request's local error_handler
    value,        \* the result of queryst::parse
    fq,           \* the result of from_query
    res,          \* from_request's local r / the value handed to the caller
    future,       \* the future from_request returns
    log,          \* the log records emitted so far
    calls,        \* how often each request called parser, decoder, handler, into
    s,            \* the wrapper held by the application's handler
    written,      \* the last value assigned to each field through DerefMut
    inner         \* what into_inner returned

vars == <<phase, app_data, parser, decoder, pc, req, ehandler, value, fq, res,
          future, log, calls, s, written, inner>>

env == <<phase, app_data, parser, decoder>>
wrap == <<s, written, inner>>

NoCalls == [parse |-> 0, decode |-> 0, handler |-> 0, into |-> 0]

Init ==
    /\ phase = "build"
    /\ app_data = None
    /\ parser \in [QueryStrings -> ParseResults]
    /\ decoder \in [JsonValues -> DecodeResults]
    /\ pc = [r \in Requests |-> "idle"]
    /\ req = [r \in Requests |-> None]
    /\ ehandler = [r \in Requests |-> None]
    /\ value = [r \in Requests |-> None]
    /\ fq = [r \in Requests |-> None]
    /\ res = [r \in Requests |-> None]
    /\ future = [r \in Requests |-> None]
    /\ log = <<>>
    /\ calls = [r \in Requests |-> NoCalls]
    /\ s = [r \in Requests |-> None]
    /\ written = [r \in Requests |-> [f \in Fields |-> Unwritten]]
    /\ inner = [r \in Requests |-> None]

(* ------------------------ configuring the App -------------------------- *)
\* .app_data(QueryStConfig::default())
RegisterAppData ==
    /\ phase = "build"
    /\ app_data = None
    /\ app_data' = Some(QueryStConfig_default)
    /\ UNCHANGED <<phase, parser, decoder, pc, req, ehandler, value, fq, res,
                   future, log, calls, wrap>>

\* QueryStConfig::default().error_handler(f)
SetErrorHandler(f) ==
    /\ phase = "build"
    /\ IsSome(app_data)
    /\ app_data' = Some(error_handler(app_data.some, f))
    /\ UNCHANGED <<phase, parser, decoder, pc, req, ehandler, value, fq, res,
                   future, log, calls, wrap>>

Serve ==
    /\ phase = "build"
    /\ phase' = "serving"
    /\ UNCHANGED <<app_data, parser, decoder, pc, req, ehandler, value, fq, res,
                   future, log, calls, wrap>>

(* --------------------------- from_request ------------------------------ *)
\* variant of lookup_error_handler: the registered handler is never picked up
lookup_none(data) == None

\* req.app_data::<Self::Config>().map(|c| c.ehandler.clone()).unwrap_or(None)
lookup_error_handler(data) == IF IsSome(data) THEN data.some.ehandler ELSE None

\* the request's path; every request has its own
PathOf(r) == r

\* variant of FromRequest: a missing configuration fails the extraction
FromRequest_require_config(r, q) ==
    /\ phase = "serving"
    /\ pc[r] = "idle"
    /\ req' = [req EXCEPT ![r] = [api |-> "from_request", query |-> q, path |-> PathOf(r)]]
    /\ IF IsSome(app_data)
       THEN /\ ehandler' = [ehandler EXCEPT ![r] = app_data.some.ehandler]
            /\ pc' = [pc EXCEPT ![r] = "parse"]
            /\ res' = res
       ELSE /\ ehandler' = ehandler
            /\ pc' = [pc EXCEPT ![r] = "ready"]
            /\ res' = [res EXCEPT ![r] =
                   Err(InternalError_from_response(DeserializeType("no configuration"), 500))]
    /\ UNCHANGED <<env, value, fq, future, log, calls, wrap>>

\* the framework calls from_request: the configuration is looked up
FromRequest(r, q) ==
    /\ phase = "serving"
    /\ pc[r] = "idle"
    /\ req' = [req EXCEPT ![r] = [api |-> "from_request", query |-> q, path |-> PathOf(r)]]
    /\ ehandler' = [ehandler EXCEPT ![r] = lookup_error_handler(app_data)]
    /\ pc' = [pc EXCEPT ![r] = "parse"]
    /\ UNCHANGED <<env, value, fq, res, future, log, calls, wrap>>

\* the application calls QuerySt::from_query itself
FromQuery(r, q) ==
    /\ phase = "serving"
    /\ pc[r] = "idle"
    /\ req' = [req EXCEPT ![r] = [api |-> "from_query", query |-> q, path |-> PathOf(r)]]
    /\ pc' = [pc EXCEPT ![r] = "parse"]
    /\ UNCHANGED <<env, ehandler, value, fq, res, future, log, calls, wrap>>

\* variant of Returned: a failed from_query is attempted a second time
Returned_retry(r, result) ==
    IF req[r].api = "from_query"
    THEN /\ pc' = [pc EXCEPT ![r] = "done"]
         /\ res' = [res EXCEPT ![r] = result]
    ELSE /\ pc' = [pc EXCEPT ![r] = IF IsErr(result)
                                     THEN (IF calls[r].parse < 1 THEN "parse" ELSE "log")
                                     ELSE "ready"]
         /\ res' = IF IsErr(result) THEN res ELSE [res EXCEPT ![r] = result]

\* where from_query's result goes: back to the caller, or into map_err
Returned(r, result) ==
    IF req[r].api = "from_query"
    THEN /\ pc' = [pc EXCEPT ![r] = "done"]
         /\ res' = [res EXCEPT ![r] = result]
    ELSE /\ pc' = [pc EXCEPT ![r] = IF IsErr(result) THEN "log" ELSE "ready"]
         /\ res' = IF IsErr(result) THEN res ELSE [res EXCEPT ![r] = result]

\* variant of parse_result: the parse failure is reported as a decode failure
parse_result_as_type(p) == IF IsErr(p) THEN Err(DeserializeType(p.err)) ELSE Ok(p.ok)

\* queryst::parse(query_str).map_err(QueryStPayloadError::DeserializeValue)
parse_result(p) == IF IsErr(p) THEN Err(DeserializeValue(p.err)) ELSE Ok(p.ok)

\* let value = queryst::parse(query_str).map_err(DeserializeValue)?;
Parse(r) ==
    /\ pc[r] = "parse"
    /\ LET p == parse_result(parser[req[r].query]) IN
        /\ calls' = [calls EXCEPT ![r].parse = @ + 1]
        /\ IF IsErr(p)
           THEN /\ fq' = [fq EXCEPT ![r] = p]
                /\ value' = value
                /\ Returned(r, p)
           ELSE /\ value' = [value EXCEPT ![r] = Some(p.ok)]
                /\ pc' = [pc EXCEPT ![r] = "decode"]
                /\ UNCHANGED <<fq, res>>
    /\ UNCHANGED <<env, req, ehandler, future, log, wrap>>

\* variant of decode_result: the decode failure is reported as a parse failure
decode_result_as_value(d) == IF IsErr(d) THEN Err(DeserializeValue(d.err)) ELSE Ok(QuerySt(d.ok))

\* variant of decode_result: the wrapper is built around a default T
decode_result_lossy(d) ==
    IF IsErr(d) THEN Err(DeserializeType(d.err)) ELSE Ok(QuerySt([f \in Fields |-> "test"]))

\* serde_json::from_value(value).map_err(DeserializeType).map(QuerySt)
decode_result(d) == IF IsErr(d) THEN Err(DeserializeType(d.err)) ELSE Ok(QuerySt(d.ok))

Decode(r) ==
    /\ pc[r] = "decode"
    /\ LET result == decode_result(decoder[value[r].some]) IN
        /\ calls' = [calls EXCEPT ![r].decode = @ + 1]
        /\ fq' = [fq EXCEPT ![r] = result]
        /\ Returned(r, result)
    /\ UNCHANGED <<env, req, ehandler, value, future, log, wrap>>

\* log::debug!("Failed during QuerySt extractor deserialization. ...", req.path())
LogEntry(r) == [level |-> "debug", path |-> req[r].path]

\* variant of Log: the record is written in the default branch only
Log_default_only(r) ==
    /\ pc[r] = "log"
    /\ log' = IF IsSome(ehandler[r]) THEN log ELSE Append(log, LogEntry(r))
    /\ pc' = [pc EXCEPT ![r] = "convert"]
    /\ UNCHANGED <<env, req, ehandler, value, fq, res, future, calls, wrap>>

Log(r) ==
    /\ pc[r] = "log"
    /\ log' = Append(log, LogEntry(r))
    /\ pc' = [pc EXCEPT ![r] = "convert"]
    /\ UNCHANGED <<env, req, ehandler, value, fq, res, future, calls, wrap>>

\* variant of Convert: the handler is taken out of the shared configuration
Convert_take(r) ==
    /\ pc[r] = "convert"
    /\ IF IsSome(ehandler[r])
       THEN /\ res' = [res EXCEPT ![r] = Err(call_handler(ehandler[r].some, fq[r].err, req[r]))]
            /\ calls' = [calls EXCEPT ![r].handler = @ + 1]
            /\ app_data' = Some(QueryStConfig_default)
       ELSE /\ res' = [res EXCEPT ![r] = Err(into(fq[r].err))]
            /\ calls' = [calls EXCEPT ![r].into = @ + 1]
            /\ app_data' = app_data
    /\ pc' = [pc EXCEPT ![r] = "ready"]
    /\ UNCHANGED <<phase, parser, decoder, req, ehandler, value, fq, future, log, wrap>>

\* if let Some(error_handler) = error_handler { (error_handler)(e, req) } else { e.into() }
Convert(r) ==
    /\ pc[r] = "convert"
    /\ IF IsSome(ehandler[r])
       THEN /\ res' = [res EXCEPT ![r] = Err(call_handler(ehandler[r].some, fq[r].err, req[r]))]
            /\ calls' = [calls EXCEPT ![r].handler = @ + 1]
       ELSE /\ res' = [res EXCEPT ![r] = Err(into(fq[r].err))]
            /\ calls' = [calls EXCEPT ![r].into = @ + 1]
    /\ pc' = [pc EXCEPT ![r] = "ready"]
    /\ UNCHANGED <<env, req, ehandler, value, fq, future, log, wrap>>

\* ready(r)
ready(x) == [state |-> "Ready", output |-> x]

Resolve(r) ==
    /\ pc[r] = "ready"
    /\ future' = [future EXCEPT ![r] = ready(res[r])]
    /\ pc' = [pc EXCEPT ![r] = "done"]
    /\ UNCHANGED <<env, req, ehandler, value, fq, res, log, calls, wrap>>

(* ------------------- the wrapper in the handler ------------------------ *)
\* let mut s = QuerySt::<T>::from_...(...).unwrap();
Unwrap(r) ==
    /\ pc[r] = "done"
    /\ IsOk(res[r])
    /\ s' = [s EXCEPT ![r] = Some(res[r].ok)]
    /\ pc' = [pc EXCEPT ![r] = "held"]
    /\ UNCHANGED <<env, req, ehandler, value, fq, res, future, log, calls, written, inner>>

\* s.id = "test1".to_string();
DerefMutWrite(r, f, v) ==
    /\ pc[r] = "held"
    /\ s' = [s EXCEPT ![r] = Some(deref_mut_assign(s[r].some, f, v))]
    /\ written' = [written EXCEPT ![r][f] = v]
    /\ UNCHANGED <<env, pc, req, ehandler, value, fq, res, future, log, calls, inner>>

\* let s = s.into_inner();
IntoInner(r) ==
    /\ pc[r] = "held"
    /\ inner' = [inner EXCEPT ![r] = Some(into_inner(s[r].some))]
    /\ s' = [s EXCEPT ![r] = None]
    /\ pc' = [pc EXCEPT ![r] = "consumed"]
    /\ UNCHANGED <<env, req, ehandler, value, fq, res, future, log, calls, written>>

(* --------------------------- specifications ---------------------------- *)
Build == RegisterAppData \/ (\E f \in Handlers : SetErrorHandler(f)) \/ Serve

Extract(r) ==
    \/ \E q \in QueryStrings : FromRequest(r, q)
    \/ \E q \in QueryStrings : FromQuery(r, q)
    \/ Parse(r)
    \/ Decode(r)
    \/ Log(r)
    \/ Convert(r)
    \/ Resolve(r)

Handle(r) ==
    \/ Unwrap(r)
    \/ \E f \in Fields, v \in Strs : DerefMutWrite(r, f, v)
    \/ IntoInner(r)

Next == Build \/ \E r \in Requests : Extract(r)

Spec == Init /\ [][Next]_vars

NextW == Build \/ \E r \in WRequests : (Extract(r) \/ Handle(r))

SpecW == Init /\ [][NextW]_vars

(* ------------------------------ properties ----------------------------- *)
\* what the two external crates do with a query string
Rejected(q) == IsErr(parser[q])
Mismatch(q) == IsOk(parser[q]) /\ IsErr(decoder[parser[q].ok])
Matches(q) == IsOk(parser[q]) /\ IsOk(decoder[parser[q].ok])

Started(r) == pc[r] # "idle"
Finished(r) == pc[r] \in {"done", "held", "consumed"}
ViaRequest(r) == Started(r) /\ req[r].api = "from_request"
ViaQuery(r) == Started(r) /\ req[r].api = "from_query"
Failed(r) == IsErr(fq[r])
CustomHandler == IsSome(app_data) /\ IsSome(app_data.some.ehandler)

\* C1: a failing from_request on a route whose QueryStConfig carries a custom
\* error handler returns exactly handler(QueryStPayloadError, request); its
\* status is the handler's (422 for the test's handler), never the default 400.
C1_HandlerResult ==
    \A r \in Requests :
        (ViaRequest(r) /\ Finished(r) /\ Failed(r) /\ CustomHandler) =>
            /\ future[r].output = Err(call_handler(app_data.some.ehandler.some, fq[r].err, req[r]))
            /\ error_response_status(future[r].output.err) # BAD_REQUEST
            /\ (app_data.some.ehandler.some = "unprocessable" =>
                    error_response_status(future[r].output.err) = UNPROCESSABLE_ENTITY)

\* both failure kinds went through the 422 handler
C1_Witness ==
    /\ CustomHandler
    /\ app_data.some.ehandler.some = "unprocessable"
    /\ \E r1, r2 \in Requests :
        /\ ViaRequest(r1) /\ Finished(r1) /\ Failed(r1)
        /\ ViaRequest(r2) /\ Finished(r2) /\ Failed(r2)
        /\ fq[r1].err.variant = "DeserializeValue"
        /\ fq[r2].err.variant = "DeserializeType"
        /\ error_response_status(future[r1].output.err) = UNPROCESSABLE_ENTITY
        /\ error_response_status(future[r2].output.err) = UNPROCESSABLE_ENTITY

\* C2: a failing from_request with no custom handler in effect (no
\* QueryStConfig registered, or a default one) yields an error of status 400,
\* for DeserializeValue and DeserializeType alike.
C2_DefaultStatus ==
    \A r \in Requests :
        (ViaRequest(r) /\ Finished(r) /\ Failed(r) /\ ~CustomHandler) =>
            /\ IsErr(future[r].output)
            /\ error_response_status(future[r].output.err) = BAD_REQUEST

\* both failure kinds were converted by default, under a default QueryStConfig
C2_Witness ==
    /\ IsSome(app_data)
    /\ ~CustomHandler
    /\ \E r1, r2 \in Requests :
        /\ ViaRequest(r1) /\ Finished(r1) /\ Failed(r1)
        /\ ViaRequest(r2) /\ Finished(r2) /\ Failed(r2)
        /\ fq[r1].err.variant = "DeserializeValue"
        /\ fq[r2].err.variant = "DeserializeType"
        /\ error_response_status(future[r1].output.err) = BAD_REQUEST
        /\ error_response_status(future[r2].output.err) = BAD_REQUEST

\* C3: in from_query a query string the parser rejects gives DeserializeValue
\* with the parser's error and the decoder is never called; the decoder is
\* called only after the parser accepted the query string.
C3_ParsePrecedence ==
    \A r \in Requests :
        /\ (Started(r) /\ calls[r].parse > 0 /\ Rejected(req[r].query)) =>
                /\ fq[r] = Err(DeserializeValue(parser[req[r].query].err))
                /\ calls[r].decode = 0
                /\ (ViaQuery(r) => pc[r] = "done" /\ res[r] = fq[r])
        /\ calls[r].decode > 0 => (calls[r].parse > 0 /\ ~Rejected(req[r].query))

\* a direct from_query call returned the parse failure without decoding
C3_Witness ==
    \E r \in Requests :
        /\ ViaQuery(r) /\ Finished(r) /\ Rejected(req[r].query)
        /\ res[r].err.variant = "DeserializeValue"
        /\ calls[r].decode = 0

\* C4: a query string the parser accepts but whose value does not decode into
\* T makes from_query fail with DeserializeType carrying the decoder's error:
\* neither DeserializeValue nor a wrapper.
C4_DecodeFailure ==
    \A r \in Requests :
        (Started(r) /\ calls[r].decode > 0 /\ Mismatch(req[r].query)) =>
            /\ fq[r] = Err(DeserializeType(decoder[parser[req[r].query].ok].err))
            /\ (ViaQuery(r) => pc[r] = "done" /\ res[r] = fq[r])
            /\ ~IsOk(res[r])

\* a direct from_query call returned the decode failure
C4_Witness ==
    \E r \in Requests :
        /\ ViaQuery(r) /\ Finished(r) /\ Mismatch(req[r].query)
        /\ res[r].err.variant = "DeserializeType"

\* C5: for a query string that parses and decodes, from_query and from_request
\* return a wrapper around the decoded value; no error value is built and the
\* error handler is not called.
C5_Success ==
    \A r \in Requests :
        (Finished(r) /\ Matches(req[r].query)) =>
            /\ res[r] = Ok(QuerySt(decoder[parser[req[r].query].ok].ok))
            /\ (ViaRequest(r) => future[r].output = res[r])
            /\ fq[r] = res[r]
            /\ calls[r].handler = 0
            /\ calls[r].into = 0

\* both entry points succeeded on a route with a custom handler, with
\* different decoded values
C5_Witness ==
    /\ CustomHandler
    /\ \E r1, r2 \in Requests :
        /\ ViaRequest(r1) /\ Finished(r1) /\ IsOk(future[r1].output)
        /\ ViaQuery(r2) /\ Finished(r2) /\ IsOk(res[r2])
        /\ res[r1] # res[r2]

\* the value the decoder produced for the request's query string
Extracted(r) == decoder[parser[req[r].query].ok].ok

\* the last value written to each field, the extracted value where none was
LastWritten(r) ==
    [f \in Fields |-> IF written[r][f] # Unwritten THEN written[r][f] ELSE Extracted(r)[f]]

\* C6: after a successful extraction the wrapper and its inner value are in
\* sync: a read through Deref, and into_inner, give for every field the last
\* value written through DerefMut, and the extracted value of a field never
\* written.
C6_WrapperInSync ==
    \A r \in Requests :
        /\ pc[r] = "held" => deref(s[r].some) = LastWritten(r)
        /\ pc[r] = "consumed" => inner[r] = Some(LastWritten(r))

\* into_inner returned a value with one field overwritten and one untouched
C6_Witness ==
    \E r \in Requests :
        /\ pc[r] = "consumed"
        /\ written[r]["id"] # Unwritten
        /\ written[r]["id"] # Extracted(r)["id"]
        /\ written[r]["name"] = Unwritten
        /\ inner[r].some["id"] = written[r]["id"]

\* C7: with no QueryStConfig in the application data from_request behaves as
\* with a default QueryStConfig: it uses no handler, a matching query string
\* still succeeds with the decoded value, and a failing one gets the default
\* conversion of its QueryStPayloadError.
C7_AbsentIsDefault ==
    \A r \in Requests :
        (ViaRequest(r) /\ app_data = None) =>
            /\ Finished(r) =>
                /\ Matches(req[r].query) => future[r].output = Ok(QuerySt(Extracted(r)))
                /\ ~Matches(req[r].query) =>
                       /\ Failed(r)
                       /\ future[r].output = Err(into(fq[r].err))
            /\ ehandler[r] = QueryStConfig_default.ehandler

\* without a configuration one request succeeded and one failed
C7_Witness ==
    /\ app_data = None
    /\ \E r1, r2 \in Requests :
        /\ ViaRequest(r1) /\ Finished(r1) /\ IsOk(future[r1].output)
        /\ ViaRequest(r2) /\ Finished(r2) /\ IsErr(future[r2].output)

\* the failure of a query string, as the two crates decide it
Failure(q) ==
    IF Rejected(q) THEN DeserializeValue(parser[q].err)
    ELSE DeserializeType(decoder[parser[q].ok].err)

\* the outcome of from_request as a function of the query string and the
\* registered configuration
Outcome(q, data) ==
    IF Matches(q) THEN Ok(QuerySt(decoder[parser[q].ok].ok))
    ELSE IF IsSome(data) /\ IsSome(data.some.ehandler)
         THEN Err([kind |-> "InternalError", cause |-> Failure(q),
                   status |-> IF data.some.ehandler.some = "unprocessable"
                              THEN UNPROCESSABLE_ENTITY ELSE CONFLICT])
         ELSE Err([kind |-> "ResponseError", cause |-> Failure(q), status |-> BAD_REQUEST])

C8_OutcomeIsFunction ==
    \A r \in Requests :
        (ViaRequest(r) /\ Finished(r)) => future[r].output = Outcome(req[r].query, app_data)

C8_ConfigReadOnly == phase = "serving" => app_data' = app_data

\* a step of one request leaves the other requests as they were
C8_OthersUntouched ==
    \A r \in Requests :
        (pc'[r] # pc[r]) =>
            \A o \in Requests \ {r} :
                /\ pc'[o] = pc[o] /\ req'[o] = req[o] /\ ehandler'[o] = ehandler[o]
                /\ value'[o] = value[o] /\ fq'[o] = fq[o] /\ res'[o] = res[o]
                /\ future'[o] = future[o]

\* C8: extractions of concurrent requests sharing one QueryStConfig are
\* independent: under every interleaving a request's outcome is a function of
\* its own query string and the configuration, no step writes the
\* configuration once requests are served, and no step of one request writes
\* another request's state.
C8_Independent ==
    /\ []C8_OutcomeIsFunction
    /\ [][C8_ConfigReadOnly /\ C8_OthersUntouched]_vars

\* two requests failed through the shared handler while both were in flight
C8_Witness ==
    /\ CustomHandler
    /\ \E r1, r2 \in Requests :
        /\ r1 # r2
        /\ ViaRequest(r1) /\ Finished(r1) /\ IsErr(future[r1].output)
        /\ ViaRequest(r2) /\ pc[r2] = "ready" /\ IsErr(res[r2])
        /\ calls[r1].handler = 1 /\ calls[r2].handler = 1

C9_SingleAttempt ==
    \A r \in Requests :
        ViaRequest(r) =>
            /\ calls[r].parse <= 1
            /\ calls[r].decode <= 1
            /\ calls[r].handler + calls[r].into <= 1
            /\ calls[r].handler + calls[r].into > 0 => Failed(r)
            /\ Finished(r) =>
                /\ calls[r].parse = 1
                /\ future[r].state = "Ready"
                /\ Failed(r) => IsErr(future[r].output)
                /\ Failed(r) => calls[r].handler + calls[r].into = 1

C9_FailureIsTerminal ==
    \A r \in Requests :
        (ViaRequest(r) /\ Failed(r)) =>
            /\ fq'[r] = fq[r]
            /\ pc'[r] \notin {"parse", "decode"}
            /\ ~IsOk(res'[r])
            /\ IsErr(res[r]) => res'[r] = res[r]

\* C9: a call of from_request makes one attempt and returns a ready future:
\* the parser is called exactly once, the decoder at most once, the error
\* handler at most once and only after a failure; a failure is never retried
\* and never becomes a wrapper.
C9_OneAttempt ==
    /\ []C9_SingleAttempt
    /\ [][C9_FailureIsTerminal]_vars

\* a request failed in the decoder and was resolved through the handler
C9_Witness ==
    \E r \in Requests :
        /\ ViaRequest(r) /\ Finished(r) /\ Failed(r)
        /\ calls[r] = [parse |-> 1, decode |-> 1, handler |-> 1, into |-> 0]
        /\ future[r].state = "Ready"

\* the number of log records naming the request's path
Logged(r) == Cardinality({i \in 1..Len(log) : log[i] = [level |-> "debug", path |-> PathOf(r)]})

\* C10: from_request writes one debug-level log record naming the request
\* path when the extraction fails, for either failure kind and with or
\* without a custom handler, before the handler or the default conversion
\* runs; a successful extraction writes none.
C10_FailureLogged ==
    /\ \A i \in 1..Len(log) : log[i].level = "debug"
    /\ \A r \in Requests :
        /\ (ViaRequest(r) /\ pc[r] = "convert") => Logged(r) = 1
        /\ (ViaRequest(r) /\ calls[r].handler + calls[r].into > 0) => Logged(r) = 1
        /\ (ViaRequest(r) /\ Finished(r) /\ Failed(r)) => Logged(r) = 1
        /\ (Started(r) /\ ~Failed(r)) => Logged(r) = 0

\* the record of a failed request is in the log while its handler has not yet
\* run, next to a request that succeeded and logged nothing
C10_Witness ==
    /\ CustomHandler
    /\ \E r1, r2 \in Requests :
        /\ ViaRequest(r1) /\ pc[r1] = "convert" /\ Logged(r1) = 1
        /\ calls[r1].handler = 0
        /\ ViaRequest(r2) /\ Finished(r2) /\ IsOk(future[r2].output) /\ Logged(r2) = 0

====
